---------------------------- MODULE Spec2Model ----------------------------
(***************************************************************************)
(* Model of the cleaning + validation pipeline (cleaner.py, validator.py). *)
(*                                                                         *)
(* Text is a sequence of code points.  A code point is written as a        *)
(* one-element name: printable ASCII stands for itself ("a", "&", " "),    *)
(* the others carry a mnemonic:                                            *)
(*   "NUL" U+0000  "TAB" U+0009  "LF" U+000A  "CR" U+000D                  *)
(*   "NBSP" U+00A0 "ZWSP" U+200B "BOM" U+FEFF "FWAMP" U+FF06 (fullwidth &) *)
(*   "U2248" "U21A6" "U2213" "U00B1"  the values of the entities ap; map;  *)
(*   mp; pm;                                                               *)
(* A Python value is a tagged record: None, a str, or an int.              *)
(***************************************************************************)
EXTENDS Integers, Sequences, FiniteSets, TLC

VARIABLES
    nt_pc, nt_in, nt_once, nt_twice,
    vr_pc, vr_record, vr_min, vr_reasons,
    pd_pc, pd_in, pd_out,
    cr_pc, cr_record, cr_before, cr_cleaned,
    pl_pc, pl_raw, pl_cleaned, pl_min, pl_valid, pl_invalid, pl_reasons,
    pl_top_n, pl_report

textVars == <<nt_pc, nt_in, nt_once, nt_twice>>
valVars == <<vr_pc, vr_record, vr_min, vr_reasons>>
dateVars == <<pd_pc, pd_in, pd_out>>
cleanVars == <<cr_pc, cr_record, cr_before, cr_cleaned>>
pipeVars ==
    <<pl_pc, pl_raw, pl_cleaned, pl_min, pl_valid, pl_invalid, pl_reasons,
      pl_top_n, pl_report>>
vars == <<textVars, valVars, dateVars, cleanVars, pipeVars>>

-----------------------------------------------------------------------------
(* Python values *)

PyNone == [t |-> "none", s |-> <<>>, n |-> 0]
PyStr(str) == [t |-> "str", s |-> str, n |-> 0]
PyInt(i) == [t |-> "int", s |-> <<>>, n |-> i]

Digits == <<"0", "1", "2", "3", "4", "5", "6", "7", "8", "9">>

RECURSIVE NatToText(_)
NatToText(i) ==
    IF i < 10 THEN <<Digits[i + 1]>>
    ELSE NatToText(i \div 10) \o <<Digits[(i % 10) + 1]>>

\* str(int)
IntToText(i) == IF i < 0 THEN <<"-">> \o NatToText(-i) ELSE NatToText(i)

to_text(value) ==
    IF value.t = "none" THEN <<>>
    ELSE IF value.t = "int" THEN IntToText(value.n)
    ELSE value.s

-----------------------------------------------------------------------------
(* html.unescape, restricted to named character references; the table     *)
(* holds every HTML5 name that can be written with the letters a, m, p,   *)
(* the only letters that follow "&" in the texts of this model.  Numeric  *)
(* character references ("&#" followed by digits) are not covered.        *)

html5 ==
    (<<"a", "m", "p">> :> <<"&">>) @@
    (<<"a", "m", "p", ";">> :> <<"&">>) @@
    (<<"a", "p", ";">> :> <<"U2248">>) @@
    (<<"m", "a", "p", ";">> :> <<"U21A6">>) @@
    (<<"m", "p", ";">> :> <<"U2213">>) @@
    (<<"p", "m", ";">> :> <<"U00B1">>)

\* [^\t\n\f <&#;]
IsNameChar(ch) == ch \notin {"TAB", "LF", " ", "<", "&", "#", ";"}

RECURSIVE NameRunLen(_)
NameRunLen(s) ==
    IF s = <<>> \/ ~IsNameChar(Head(s)) THEN 0 ELSE 1 + NameRunLen(Tail(s))

RECURSIVE LongestPrefix(_, _)
LongestPrefix(ref, x) ==
    IF x < 2 THEN 0
    ELSE IF SubSeq(ref, 1, x) \in DOMAIN html5 THEN x
    ELSE LongestPrefix(ref, x - 1)

replace_charref(ref) ==
    IF ref \in DOMAIN html5 THEN html5[ref]
    ELSE LET x == LongestPrefix(ref, Len(ref) - 1)
         IN IF x > 0
            THEN html5[SubSeq(ref, 1, x)] \o SubSeq(ref, x + 1, Len(ref))
            ELSE <<"&">> \o ref

RECURSIVE html_unescape(_)
html_unescape(s) ==
    IF s = <<>> THEN <<>>
    ELSE IF Head(s) # "&" THEN <<Head(s)>> \o html_unescape(Tail(s))
    ELSE LET rest == Tail(s)
             run == NameRunLen(rest)
             n == IF run > 32 THEN 32 ELSE run
             k == IF n < Len(rest) /\ rest[n + 1] = ";" THEN n + 1 ELSE n
         IN IF n = 0 THEN <<"&">> \o html_unescape(rest)
            ELSE replace_charref(SubSeq(rest, 1, k))
                     \o html_unescape(SubSeq(rest, k + 1, Len(rest)))

-----------------------------------------------------------------------------
(* unicodedata and str helpers *)

\* unicodedata.normalize("NFKC", ch) for one code point of the model
nfkc_char(ch) ==
    CASE ch = "NBSP" -> " "
      [] ch = "FWAMP" -> "&"
      [] OTHER -> ch

nfkc(s) == [i \in 1..Len(s) |-> nfkc_char(s[i])]

\* unicodedata.category(ch)[0] = "C"
IsCategoryC(ch) == ch \in {"NUL", "TAB", "LF", "CR", "ZWSP", "BOM"}

\* the regular expression class \s, and what str.strip() strips
IsSpace(ch) == ch \in {" ", "TAB", "LF", "CR", "NBSP"}

RECURSIVE RemoveChar(_, _)
RemoveChar(s, ch) ==
    IF s = <<>> THEN <<>>
    ELSE IF Head(s) = ch THEN RemoveChar(Tail(s), ch)
    ELSE <<Head(s)>> \o RemoveChar(Tail(s), ch)

ReplaceChar(s, ch, by) == [i \in 1..Len(s) |-> IF s[i] = ch THEN by ELSE s[i]]

RECURSIVE RemoveControl(_)
RemoveControl(s) ==
    IF s = <<>> THEN <<>>
    ELSE IF Head(s) \in {"LF", "TAB"} \/ ~IsCategoryC(Head(s))
         THEN <<Head(s)>> \o RemoveControl(Tail(s))
         ELSE RemoveControl(Tail(s))

\* s.replace("\r\n", "\n")
RECURSIVE ReplaceCrLf(_)
ReplaceCrLf(s) ==
    IF s = <<>> THEN <<>>
    ELSE IF Len(s) >= 2 /\ s[1] = "CR" /\ s[2] = "LF"
         THEN <<"LF">> \o ReplaceCrLf(Tail(Tail(s)))
         ELSE <<Head(s)>> \o ReplaceCrLf(Tail(s))

\* _WHITESPACE_RE.sub(" ", s): every maximal run of \s becomes one space
RECURSIVE CollapseWhitespace(_)
CollapseWhitespace(s) ==
    IF s = <<>> THEN <<>>
    ELSE IF IsSpace(Head(s))
         THEN IF Len(s) >= 2 /\ IsSpace(s[2])
              THEN CollapseWhitespace(Tail(s))
              ELSE <<" ">> \o CollapseWhitespace(Tail(s))
         ELSE <<Head(s)>> \o CollapseWhitespace(Tail(s))

RECURSIVE LStrip(_)
LStrip(s) == IF s # <<>> /\ IsSpace(Head(s)) THEN LStrip(Tail(s)) ELSE s

RECURSIVE RStrip(_)
RStrip(s) ==
    IF s # <<>> /\ IsSpace(s[Len(s)]) THEN RStrip(SubSeq(s, 1, Len(s) - 1)) ELSE s

Strip(s) == RStrip(LStrip(s))

UpperLetters ==
    <<"A", "B", "C", "D", "E", "F", "G", "H", "I", "J", "K", "L", "M",
      "N", "O", "P", "Q", "R", "S", "T", "U", "V", "W", "X", "Y", "Z">>

LowerLetters ==
    <<"a", "b", "c", "d", "e", "f", "g", "h", "i", "j", "k", "l", "m",
      "n", "o", "p", "q", "r", "s", "t", "u", "v", "w", "x", "y", "z">>

Range(f) == {f[i] : i \in DOMAIN f}

\* str.isascii() and str.isalpha() of one code point
IsAsciiAlpha(ch) == ch \in Range(UpperLetters) \cup Range(LowerLetters)

IsDigit(ch) == ch \in Range(Digits)

\* urllib.parse.scheme_chars: letters, digits, "+", "-", "."
IsSchemeChar(ch) == IsAsciiAlpha(ch) \/ IsDigit(ch) \/ ch \in {"+", "-", "."}

\* str.lower() of one code point
LowerChar(ch) ==
    IF ch \in Range(UpperLetters)
    THEN LowerLetters[CHOOSE i \in 1..26 : UpperLetters[i] = ch]
    ELSE ch

\* the code points of the model outside ASCII
NonAscii == {"NBSP", "ZWSP", "BOM", "FWAMP", "U2248", "U21A6", "U2213", "U00B1"}

\* str.find of one code point: the 0-based index of its first occurrence, or -1
RECURSIVE FindFrom(_, _, _)
FindFrom(s, chars, i) ==
    IF i > Len(s) THEN -1
    ELSE IF s[i] \in chars THEN i - 1
    ELSE FindFrom(s, chars, i + 1)

-----------------------------------------------------------------------------
(* cleaner.py: normalize_text *)

normalize_text(value) ==
    LET s0 == to_text(value)
        s1 == html_unescape(s0)
        s2 == nfkc(s1)
        s3 == RemoveChar(s2, "BOM")
        s4 == RemoveChar(s3, "ZWSP")
        s5 == ReplaceChar(s4, "NBSP", " ")
        s6 == RemoveControl(s5)
        s7 == ReplaceChar(ReplaceCrLf(s6), "CR", "LF")
    IN Strip(CollapseWhitespace(s7))

-----------------------------------------------------------------------------
(* datetime: calendar, fromtimestamp, fromisoformat, astimezone,           *)
(* strptime, isoformat, as CPython 3.11 implements them.                   *)

IsLeap(y) == (y % 4 = 0 /\ y % 100 # 0) \/ y % 400 = 0

DaysInMonth(y, m) ==
    IF m = 2 THEN (IF IsLeap(y) THEN 29 ELSE 28)
    ELSE IF m \in {4, 6, 9, 11} THEN 30 ELSE 31

NoDateTime ==
    [ok |-> FALSE, Y |-> 0, m |-> 0, d |-> 0, H |-> 0, M |-> 0, S |-> 0, us |-> 0,
     utc |-> FALSE]

\* datetime(Y, m, d, H, M, S, us): a ValueError when a component is out of
\* range; utc tells whether tzinfo is timezone.utc
MkDateTime(Y, m, d, H, M, S, us, utc) ==
    IF /\ Y \in 1..9999 /\ m \in 1..12 /\ d >= 1 /\ d <= DaysInMonth(Y, m)
       /\ H \in 0..23 /\ M \in 0..59 /\ S \in 0..59 /\ us \in 0..999999
    THEN [ok |-> TRUE, Y |-> Y, m |-> m, d |-> d, H |-> H, M |-> M, S |-> S,
          us |-> us, utc |-> utc]
    ELSE NoDateTime

\* the number of days before January 1st of year y, y >= 1
DaysBeforeYear(y) ==
    (y - 1) * 365 + (y - 1) \div 4 - (y - 1) \div 100 + (y - 1) \div 400

RECURSIVE DaysBeforeMonth(_, _)
DaysBeforeMonth(y, m) ==
    IF m <= 1 THEN 0 ELSE DaysBeforeMonth(y, m - 1) + DaysInMonth(y, m - 1)

\* the ordinal of a date, 1 for 0001-01-01
YmdToOrd(y, m, d) == DaysBeforeYear(y) + DaysBeforeMonth(y, m) + d

RECURSIVE MonthOfDay(_, _, _)
MonthOfDay(days, y, m) ==
    IF days < DaysInMonth(y, m) THEN [m |-> m, days |-> days]
    ELSE MonthOfDay(days - DaysInMonth(y, m), y, m + 1)

\* the date of an ordinal n >= 1
OrdToYmd(n) ==
    LET n400 == (n - 1) \div 146097
        r400 == (n - 1) % 146097
        n100 == r400 \div 36524
        r100 == r400 % 36524
        n4 == r100 \div 1461
        r4 == r100 % 1461
        n1 == r4 \div 365
        r1 == r4 % 365
        year == n400 * 400 + n100 * 100 + n4 * 4 + n1 + 1
        md == MonthOfDay(r1, year, 1)
    IN IF n1 = 4 \/ n100 = 4 THEN [Y |-> year - 1, m |-> 12, d |-> 31]
       ELSE [Y |-> year, m |-> md.m, d |-> md.days + 1]

\* the ordinal of 1970-01-01 and the greatest ordinal, that of 9999-12-31
EpochOrdinal == 719163
MaxOrdinal == 3652059

\* the date and time sec seconds and us microseconds after midnight of
\* the day of ordinal ord, in UTC; an OverflowError outside the years 1..9999
FromOrdinalSeconds(ord, sec, us) ==
    LET carry == us \div 1000000
        total == sec + carry
        day == ord + total \div 86400
        r == total % 86400
        ymd == OrdToYmd(day)
    IN IF day < 1 \/ day > MaxOrdinal THEN NoDateTime
       ELSE MkDateTime(ymd.Y, ymd.m, ymd.d, r \div 3600, (r % 3600) \div 60, r % 60,
                       us % 1000000, TRUE)

\* datetime.fromtimestamp(float(n), tz=timezone.utc) of an int n
FromTimestamp(n) == FromOrdinalSeconds(EpochOrdinal, n, 0)

\* dt.astimezone(timezone.utc) of a datetime whose zone is offsec seconds
\* and offus microseconds east of UTC
AsTimezoneUtc(dt, offsec, offus) ==
    FromOrdinalSeconds(YmdToOrd(dt.Y, dt.m, dt.d),
                       dt.H * 3600 + dt.M * 60 + dt.S - offsec, dt.us - offus)

RECURSIVE ToNat(_)
ToNat(s) ==
    IF s = <<>> THEN 0
    ELSE ToNat(SubSeq(s, 1, Len(s) - 1)) * 10
             + (CHOOSE v \in 0..9 : Digits[v + 1] = s[Len(s)])

AllDigits(s, i, j) == j <= Len(s) /\ \A k \in i..j : IsDigit(s[k])

Pad2(n) == IF n < 10 THEN <<"0">> \o NatToText(n) ELSE NatToText(n)

Pad4(n) ==
    IF n < 10 THEN <<"0", "0", "0">> \o NatToText(n)
    ELSE IF n < 100 THEN <<"0", "0">> \o NatToText(n)
    ELSE IF n < 1000 THEN <<"0">> \o NatToText(n)
    ELSE NatToText(n)

Pad6(n) == [i \in 1..(6 - Len(NatToText(n))) |-> "0"] \o NatToText(n)

\* date.isoformat()
DateIsoFormat(dt) == Pad4(dt.Y) \o <<"-">> \o Pad2(dt.m) \o <<"-">> \o Pad2(dt.d)

\* datetime.isoformat()
DateTimeIsoFormat(dt) ==
    DateIsoFormat(dt) \o <<"T">> \o Pad2(dt.H) \o <<":">> \o Pad2(dt.M)
        \o <<":">> \o Pad2(dt.S)
        \o (IF dt.us # 0 THEN <<".">> \o Pad6(dt.us) ELSE <<>>)
        \o (IF dt.utc THEN <<"+", "0", "0", ":", "0", "0">> ELSE <<>>)

\* the UTF-8 bytes of a text: an ASCII character is its own byte, the
\* bytes of any other are written "LEAD2" or "LEAD3" and "CONT"
RECURSIVE Utf8(_)
Utf8(s) ==
    IF s = <<>> THEN <<>>
    ELSE (IF Head(s) \in {"NBSP", "U00B1"} THEN <<"LEAD2", "CONT">>
          ELSE IF Head(s) \in NonAscii THEN <<"LEAD3", "CONT", "CONT">>
          ELSE <<Head(s)>>)
         \o Utf8(Tail(s))

\* the byte at the 0-based position i of a C string, NUL from its end on
ByteAt(b, i) == IF i >= 0 /\ i < Len(b) THEN b[i + 1] ELSE "NUL"

\* parse_digits(p, var, n): n ASCII digits from position i, and their value
DigitsAt(b, i, n) == \A k \in 0..(n - 1) : IsDigit(ByteAt(b, i + k))

NumAt(b, i, n) == ToNat([k \in 1..n |-> ByteAt(b, i + k - 1)])

\* _find_isoformat_datetime_separator(dtstr, len)
SeparatorLocation(b) ==
    LET len == Len(b)
        stops == {i \in 7..len : i = len \/ ~IsDigit(ByteAt(b, i))}
        idx == IF len < 7 THEN 7 ELSE CHOOSE i \in stops : \A j \in stops : i <= j
    IN IF len = 7 THEN 7
       ELSE IF ByteAt(b, 4) = "-"
       THEN IF ByteAt(b, 5) = "W"
            THEN IF len < 8 THEN -1
                 ELSE IF len > 8 /\ ByteAt(b, 8) = "-"
                 THEN IF len = 9 THEN -1
                      ELSE IF len > 10 /\ IsDigit(ByteAt(b, 10)) THEN 8
                      ELSE 10
                 ELSE 8
            ELSE 10
       ELSE IF ByteAt(b, 4) = "W"
       THEN IF idx < 9 THEN idx ELSE IF idx % 2 = 0 THEN 7 ELSE 8
       ELSE 8

NoDate == [ok |-> FALSE, Y |-> 0, m |-> 0, d |-> 0]

\* weekday(y, 1, 1): 0 for a Monday
FirstWeekday(y) == (YmdToOrd(y, 1, 1) + 6) % 7

\* iso_week1_monday(y): the ordinal of the Monday of ISO week 1
IsoWeek1Monday(y) ==
    YmdToOrd(y, 1, 1) - FirstWeekday(y) + (IF FirstWeekday(y) > 3 THEN 7 ELSE 0)

\* iso_to_ymd(y, week, day); for the year 0000 its arithmetic gives no date
\* that datetime accepts, and a date it places in the year 10000 is one
\* that MkDateTime rejects
IsoToYmd(y, week, day) ==
    LET long == FirstWeekday(y) = 3 \/ (FirstWeekday(y) = 2 /\ IsLeap(y))
        ymd == OrdToYmd(IsoWeek1Monday(y) + (week - 1) * 7 + day - 1)
    IN IF y < 1 THEN NoDate
       ELSE IF week <= 0 \/ week > 53 \/ (week = 53 /\ ~long) THEN NoDate
       ELSE IF day <= 0 \/ day >= 8 THEN NoDate
       ELSE [ok |-> TRUE, Y |-> ymd.Y, m |-> ymd.m, d |-> ymd.d]

\* parse_isoformat_date(dtstr, len, ...): YYYY-MM-DD, YYYYMMDD, YYYY-Www,
\* YYYYWww, YYYY-Www-d or YYYYWwwd
ParseIsoDate(b, len) ==
    LET uses_separator == ByteAt(b, 4) = "-"
        p0 == IF uses_separator THEN 5 ELSE 4
        p1 == p0 + 3
        hasDay == p1 < len
        dayPos == IF uses_separator THEN p1 + 1 ELSE p1
        p2 == p0 + 2
        p3 == IF uses_separator THEN p2 + 1 ELSE p2
    IN IF ~DigitsAt(b, 0, 4) THEN NoDate
       ELSE IF ByteAt(b, p0) = "W"
       THEN IF ~DigitsAt(b, p0 + 1, 2) THEN NoDate
            ELSE IF hasDay /\ uses_separator /\ ByteAt(b, p1) # "-" THEN NoDate
            ELSE IF hasDay /\ ~DigitsAt(b, dayPos, 1) THEN NoDate
            ELSE IsoToYmd(NumAt(b, 0, 4), NumAt(b, p0 + 1, 2),
                          IF hasDay THEN NumAt(b, dayPos, 1) ELSE 1)
       ELSE IF ~DigitsAt(b, p0, 2) THEN NoDate
       ELSE IF uses_separator /\ ByteAt(b, p2) # "-" THEN NoDate
       ELSE IF ~DigitsAt(b, p3, 2) THEN NoDate
       ELSE [ok |-> TRUE, Y |-> NumAt(b, 0, 4), m |-> NumAt(b, p0, 2),
             d |-> NumAt(b, p3, 2)]

\* a result of parse_hh_mm_ss_ff: its return value, the three components
\* and the microseconds
HhFail(rv) == [rv |-> rv, c |-> <<0, 0, 0>>, us |-> 0]

RECURSIVE Pow10(_)
Pow10(i) == IF i = 0 THEN 1 ELSE 10 * Pow10(i - 1)

\* parse_hh_mm_ss_ff after its loop: at most six digits of the fraction
\* are read and further digits skipped
ParseFraction(b, p, p_end, c) ==
    LET len_remains == p_end - p
        to_parse == IF len_remains >= 6 THEN 6 ELSE len_remains
        stops == {q \in (p + to_parse)..Len(b) : ~IsDigit(ByteAt(b, q))}
        rest == CHOOSE q \in stops : \A j \in stops : q <= j
    IN IF ~DigitsAt(b, p, to_parse) THEN HhFail(-3)
       ELSE [rv |-> IF ByteAt(b, rest) # "NUL" THEN 1 ELSE 0, c |-> c,
             us |-> NumAt(b, p, to_parse) * Pow10(6 - to_parse)]

\* the loop of parse_hh_mm_ss_ff from its i-th round on: HH[:MM[:SS]] or
\* HH[MM[SS]] between the positions p and p_end
RECURSIVE ParseHhMmSs(_, _, _, _, _, _)
ParseHhMmSs(b, p, p_end, i, has_separator, c) ==
    LET ch == ByteAt(b, p + 2)
        q == p + 3
        sep == IF i = 0 THEN ch = ":" ELSE has_separator
        got == [c EXCEPT ![i + 1] = NumAt(b, p, 2)]
    IN IF ~DigitsAt(b, p, 2) THEN HhFail(-3)
       ELSE IF q >= p_end
       THEN [rv |-> IF ch # "NUL" THEN 1 ELSE 0, c |-> got, us |-> 0]
       ELSE IF sep /\ ch = ":"
       THEN (IF i < 2 THEN ParseHhMmSs(b, q, p_end, i + 1, sep, got)
             ELSE ParseFraction(b, q, p_end, got))
       ELSE IF ch \in {".", ","} THEN ParseFraction(b, q, p_end, got)
       ELSE IF ~sep
       THEN (IF i < 2 THEN ParseHhMmSs(b, q - 1, p_end, i + 1, sep, got)
             ELSE ParseFraction(b, q - 1, p_end, got))
       ELSE HhFail(-4)

parse_hh_mm_ss_ff(b, p, p_end) == ParseHhMmSs(b, p, p_end, 0, TRUE, <<0, 0, 0>>)

NoTime == [rv |-> -1, c |-> <<0, 0, 0>>, us |-> 0, tzoffset |-> 0, tzus |-> 0]

\* parse_isoformat_time on the bytes from position p: rv 0 without and 1
\* with a UTC offset, negative on an error
parse_isoformat_time(b, p) ==
    LET p_end == Len(b)
        signs == {q \in p..(p_end - 1) : ByteAt(b, q) \in {"Z", "+", "-"}}
        tzinfo_pos ==
            IF signs # {} THEN CHOOSE q \in signs : \A j \in signs : q <= j
            ELSE IF p < p_end THEN p_end ELSE p + 1
        t == parse_hh_mm_ss_ff(b, p, tzinfo_pos)
        z == parse_hh_mm_ss_ff(b, tzinfo_pos + 1, p_end)
        tzsign == IF ByteAt(b, tzinfo_pos) = "-" THEN -1 ELSE 1
    IN IF t.rv < 0 THEN NoTime
       ELSE IF tzinfo_pos = p_end
       THEN (IF t.rv = 1 THEN NoTime
             ELSE [rv |-> 0, c |-> t.c, us |-> t.us, tzoffset |-> 0, tzus |-> 0])
       ELSE IF ByteAt(b, tzinfo_pos) = "Z"
       THEN (IF ByteAt(b, tzinfo_pos + 1) # "NUL" THEN NoTime
             ELSE [rv |-> 1, c |-> t.c, us |-> t.us, tzoffset |-> 0, tzus |-> 0])
       ELSE IF z.rv # 0 THEN NoTime
       ELSE [rv |-> 1, c |-> t.c, us |-> t.us,
             tzoffset |-> tzsign * (z.c[1] * 3600 + z.c[2] * 60 + z.c[3]),
             tzus |-> tzsign * z.us]

\* datetime.fromisoformat(s) followed by the conversion of an aware value
\* to UTC (cleaner.py lines 118-121); NoDateTime stands for the ValueError
\* or OverflowError. An offset of 0 seconds is timezone.utc whatever its
\* microseconds; any other must lie strictly between -24 and 24 hours
FromIsoParts(date, has_time, time) ==
    LET local == MkDateTime(date.Y, date.m, date.d, time.c[1], time.c[2], time.c[3],
                            time.us, FALSE)
    IN IF ~date.ok THEN NoDateTime
       ELSE IF ~has_time THEN MkDateTime(date.Y, date.m, date.d, 0, 0, 0, 0, FALSE)
       ELSE IF time.rv < 0 THEN NoDateTime
       ELSE IF time.rv = 0 \/ ~local.ok THEN local
       ELSE IF time.tzoffset = 0 THEN AsTimezoneUtc(local, 0, 0)
       ELSE IF time.tzoffset <= -86400 \/ time.tzoffset >= 86400 THEN NoDateTime
       ELSE AsTimezoneUtc(local, time.tzoffset, time.tzus)

\* fromisoformat on the bytes b with the separator at position loc: the
\* date before it and, after the one character it holds, the time
FromIsoBytes(b, loc) ==
    LET lead == ByteAt(b, loc)
        start == loc + (IF lead = "LEAD3" THEN 3 ELSE IF lead \in {"LEAD2", "CONT"} THEN 2
                        ELSE 1)
    IN FromIsoParts(ParseIsoDate(b, IF loc < 0 THEN 2147483647 ELSE loc),
                    Len(b) > loc, parse_isoformat_time(b, start))

FromIsoText(b) == FromIsoBytes(b, SeparatorLocation(b))

fromisoformat(s) == FromIsoText(Utf8(s))

\* s.replace("Z", "+00:00")
RECURSIVE ReplaceZ(_)
ReplaceZ(s) ==
    IF s = <<>> THEN <<>>
    ELSE (IF Head(s) = "Z" THEN <<"+", "0", "0", ":", "0", "0">> ELSE <<Head(s)>>)
             \o ReplaceZ(Tail(s))

MonthNames ==
    << <<"j", "a", "n", "u", "a", "r", "y">>, <<"f", "e", "b", "r", "u", "a", "r", "y">>,
       <<"m", "a", "r", "c", "h">>, <<"a", "p", "r", "i", "l">>, <<"m", "a", "y">>,
       <<"j", "u", "n", "e">>, <<"j", "u", "l", "y">>, <<"a", "u", "g", "u", "s", "t">>,
       <<"s", "e", "p", "t", "e", "m", "b", "e", "r">>,
       <<"o", "c", "t", "o", "b", "e", "r">>,
       <<"n", "o", "v", "e", "m", "b", "e", "r">>,
       <<"d", "e", "c", "e", "m", "b", "e", "r">> >>

MonthAbbrs == [i \in 1..12 |-> SubSeq(MonthNames[i], 1, 3)]

\* the name matches at position i, letter case ignored
NameAt(s, i, name) ==
    /\ i + Len(name) - 1 <= Len(s)
    /\ \A k \in 1..Len(name) : LowerChar(s[i + k - 1]) = name[k]

\* the two-digit, then the one-digit reading of a number at position i
\* whose value lies in lo2..hi2 (two digits) or lo1..9 (one digit)
NumberAlts(s, i, lo2, hi2, lo1) ==
    (IF AllDigits(s, i, i + 1) /\ ToNat(SubSeq(s, i, i + 1)) \in lo2..hi2
     THEN <<[len |-> 2, val |-> ToNat(SubSeq(s, i, i + 1))]>> ELSE <<>>)
    \o (IF AllDigits(s, i, i) /\ ToNat(SubSeq(s, i, i)) \in lo1..9
        THEN <<[len |-> 1, val |-> ToNat(SubSeq(s, i, i))]>> ELSE <<>>)

\* the ways a directive's regular expression matches at position i, in
\* the order of its alternatives
DirectiveAlts(tok, s, i) ==
    CASE tok = "%Y" ->
            IF AllDigits(s, i, i + 3)
            THEN <<[len |-> 4, val |-> ToNat(SubSeq(s, i, i + 3))]>> ELSE <<>>
      [] tok = "%m" -> NumberAlts(s, i, 1, 12, 1)
      [] tok = "%d" ->
            NumberAlts(s, i, 1, 31, 1)
            \o (IF i + 1 <= Len(s) /\ s[i] = " " /\ IsDigit(s[i + 1]) /\ s[i + 1] # "0"
                THEN <<[len |-> 2, val |-> ToNat(<<s[i + 1]>>)]>> ELSE <<>>)
      [] tok = "%H" -> NumberAlts(s, i, 0, 23, 0)
      [] tok = "%M" -> NumberAlts(s, i, 0, 59, 0)
      [] tok = "%S" -> NumberAlts(s, i, 0, 61, 0)
      [] tok = "%b" ->
            LET hit == SelectSeq([k \in 1..12 |-> k], LAMBDA k : NameAt(s, i, MonthAbbrs[k]))
            IN [j \in 1..Len(hit) |-> [len |-> 3, val |-> hit[j]]]
      [] tok = "%B" ->
            LET hit == SelectSeq([k \in 1..12 |-> k], LAMBDA k : NameAt(s, i, MonthNames[k]))
            IN [j \in 1..Len(hit) |-> [len |-> Len(MonthNames[hit[j]]), val |-> hit[j]]]

IsDirective(tok) == tok \in {"%Y", "%m", "%d", "%H", "%M", "%S", "%b", "%B"}

FieldOf(tok) ==
    CASE tok = "%Y" -> "Y"
      [] tok \in {"%m", "%b", "%B"} -> "m"
      [] tok = "%d" -> "d"
      [] tok = "%H" -> "H"
      [] tok = "%M" -> "M"
      [] tok = "%S" -> "S"

NoMatch == [ok |-> FALSE, pos |-> 0, f |-> <<>>]

\* the regular expression of a format, matched from position i of s at
\* token j of the format, with backtracking over the alternatives
RECURSIVE Match(_, _, _, _, _)
RECURSIVE TryAlts(_, _, _, _, _, _, _)
Match(s, i, pat, j, f) ==
    IF j > Len(pat) THEN [ok |-> TRUE, pos |-> i, f |-> f]
    ELSE IF IsDirective(pat[j])
         THEN TryAlts(s, i, pat, j, f, DirectiveAlts(pat[j], s, i), 1)
    ELSE IF pat[j] = " "
         THEN LET run == Len(s) - i + 1 - Len(LStrip(SubSeq(s, i, Len(s))))
                  alts == [k \in 1..run |-> [len |-> run - k + 1, val |-> 0]]
              IN TryAlts(s, i, pat, j, f, alts, 1)
    ELSE IF i <= Len(s) /\ s[i] = pat[j] THEN Match(s, i + 1, pat, j + 1, f)
    ELSE NoMatch

TryAlts(s, i, pat, j, f, alts, k) ==
    IF k > Len(alts) THEN NoMatch
    ELSE LET g == IF IsDirective(pat[j])
                  THEN [f EXCEPT ![FieldOf(pat[j])] = alts[k].val] ELSE f
             r == Match(s, i + alts[k].len, pat, j + 1, g)
         IN IF r.ok THEN r ELSE TryAlts(s, i, pat, j, f, alts, k + 1)

\* datetime.strptime(s, pat): NoDateTime stands for the ValueError
strptime(s, pat) ==
    LET r == Match(s, 1, pat, 1, [Y |-> 1900, m |-> 1, d |-> 1, H |-> 0, M |-> 0, S |-> 0])
    IN IF ~r.ok \/ r.pos # Len(s) + 1 THEN NoDateTime
       ELSE MkDateTime(r.f.Y, r.f.m, r.f.d, r.f.H, r.f.M, r.f.S, 0, FALSE)

-----------------------------------------------------------------------------
(* cleaner.py: parse_date_to_iso *)

\* the same list with the day-first and the month-first formats exchanged
patterns_month_first ==
    << <<"%Y", "-", "%m", "-", "%d">>,
       <<"%Y", "/", "%m", "/", "%d">>,
       <<"%Y", ".", "%m", ".", "%d">>,
       <<"%Y", "-", "%m", "-", "%d", " ", "%H", ":", "%M">>,
       <<"%Y", "-", "%m", "-", "%d", " ", "%H", ":", "%M", ":", "%S">>,
       <<"%Y", "/", "%m", "/", "%d", " ", "%H", ":", "%M">>,
       <<"%Y", "/", "%m", "/", "%d", " ", "%H", ":", "%M", ":", "%S">>,
       <<"%m", "/", "%d", "/", "%Y">>,
       <<"%d", "/", "%m", "/", "%Y">>,
       <<"%b", " ", "%d", ",", " ", "%Y">>,
       <<"%B", " ", "%d", ",", " ", "%Y">> >>

patterns ==
    << <<"%Y", "-", "%m", "-", "%d">>,
       <<"%Y", "/", "%m", "/", "%d">>,
       <<"%Y", ".", "%m", ".", "%d">>,
       <<"%Y", "-", "%m", "-", "%d", " ", "%H", ":", "%M">>,
       <<"%Y", "-", "%m", "-", "%d", " ", "%H", ":", "%M", ":", "%S">>,
       <<"%Y", "/", "%m", "/", "%d", " ", "%H", ":", "%M">>,
       <<"%Y", "/", "%m", "/", "%d", " ", "%H", ":", "%M", ":", "%S">>,
       <<"%d", "/", "%m", "/", "%Y">>,
       <<"%m", "/", "%d", "/", "%Y">>,
       <<"%b", " ", "%d", ",", " ", "%Y">>,
       <<"%B", " ", "%d", ",", " ", "%Y">> >>

\* the formats whose result is date.isoformat() (line 141)
DateOnlyPatterns ==
    { <<"%Y", "-", "%m", "-", "%d">>, <<"%Y", "/", "%m", "/", "%d">>,
      <<"%Y", ".", "%m", ".", "%d">>, <<"%d", "/", "%m", "/", "%Y">>,
      <<"%m", "/", "%d", "/", "%Y">>, <<"%b", " ", "%d", ",", " ", "%Y">>,
      <<"%B", " ", "%d", ",", " ", "%Y">> }

\* the loop over the patterns from the i-th on (lines 138-147)
RECURSIVE TryPatterns(_, _)
TryPatterns(s, i) ==
    IF i > Len(patterns) THEN PyNone
    ELSE LET dt == strptime(s, patterns[i])
         IN IF dt.ok
            THEN PyStr(IF patterns[i] \in DateOnlyPatterns
                       THEN DateIsoFormat(dt) ELSE DateTimeIsoFormat(dt))
            ELSE TryPatterns(s, i + 1)

parse_date_to_iso(value) ==
    IF value.t = "none" THEN PyNone
    ELSE IF value.t = "int"
         THEN LET dt == FromTimestamp(value.n)
              IN IF dt.ok THEN PyStr(DateTimeIsoFormat(dt)) ELSE PyNone
    ELSE LET s == normalize_text(value)
             iso == fromisoformat(ReplaceZ(s))
         IN IF s = <<>> THEN PyNone
            ELSE IF iso.ok THEN PyStr(DateTimeIsoFormat(iso))
            ELSE TryPatterns(s, 1)

-----------------------------------------------------------------------------
(* cleaner.py: remove_html_artifacts, clean_record *)

\* _HTML_TAG_RE.sub(" ", s): "<", one or more characters other than ">",
\* and ">" become one space
RECURSIVE StripTags(_)
StripTags(s) ==
    IF s = <<>> THEN <<>>
    ELSE LET close == FindFrom(s, {">"}, 2)
         IN IF Head(s) = "<" /\ close >= 2
            THEN <<" ">> \o StripTags(SubSeq(s, close + 2, Len(s)))
            ELSE <<Head(s)>> \o StripTags(Tail(s))

remove_html_artifacts(value) ==
    normalize_text(PyStr(StripTags(html_unescape(to_text(value)))))

DATE_KEYS ==
    <<"date", "published_date", "published_at", "created_at", "updated_at",
      "timestamp", "time">>

\* lines 154-159
CleanRequired(c) ==
    [k \in DOMAIN c |->
        IF k \in {"title", "content"} THEN PyStr(remove_html_artifacts(c[k]))
        ELSE IF k = "url" THEN PyStr(normalize_text(c[k]))
        ELSE c[k]]

\* lines 162-165
CleanDates(c) ==
    [k \in DOMAIN c |->
        IF k \in Range(DATE_KEYS)
        THEN LET iso == parse_date_to_iso(c[k])
             IN IF iso # PyNone THEN iso ELSE PyStr(normalize_text(c[k]))
        ELSE c[k]]

\* lines 168-172
CleanOthers(c) ==
    [k \in DOMAIN c |->
        IF k \notin {"title", "content", "url"} /\ c[k].t = "str"
        THEN PyStr(normalize_text(c[k]))
        ELSE c[k]]

\* a variant that keeps only the fields it knows how to clean
clean_record_known_only(record) ==
    LET known == {"title", "content", "url"} \cup Range(DATE_KEYS)
    IN CleanOthers(CleanDates(CleanRequired(
           [k \in DOMAIN record \cap known |-> record[k]])))

clean_record(record) == CleanOthers(CleanDates(CleanRequired(record)))

clean_data(records) == [i \in 1..Len(records) |-> clean_record(records[i])]

-----------------------------------------------------------------------------
(* validator.py *)

REQUIRED_FIELDS == <<"title", "content", "url">>

\* record.get(f)
Get(record, f) == IF f \in DOMAIN record THEN record[f] ELSE PyNone

validator_to_text(value) ==
    IF value.t = "none" THEN <<>>
    ELSE IF value.t = "int" THEN IntToText(value.n)
    ELSE value.s

validator_normalize_text(value) ==
    LET s0 == validator_to_text(value)
        s1 == html_unescape(s0)
        s2 == nfkc(s1)
        s3 == ReplaceChar(RemoveChar(RemoveChar(s2, "BOM"), "ZWSP"), "NBSP", " ")
        s4 == RemoveControl(s3)
        s5 == ReplaceChar(ReplaceCrLf(s4), "CR", "LF")
    IN Strip(CollapseWhitespace(s5))

IsAscii(s) == \A i \in 1..Len(s) : s[i] \notin NonAscii

IsHexDigit(ch) ==
    IsDigit(ch) \/ ch \in {"a", "b", "c", "d", "e", "f", "A", "B", "C", "D", "E", "F"}

\* str.split(ch)
RECURSIVE Split(_, _)
Split(s, ch) ==
    LET i == FindFrom(s, {ch}, 1)
    IN IF i < 0 THEN <<s>>
       ELSE <<SubSeq(s, 1, i)>> \o Split(SubSeq(s, i + 2, Len(s)), ch)

\* url.lstrip(_WHATWG_C0_CONTROL_OR_SPACE)
RECURSIVE LStripC0(_)
LStripC0(s) ==
    IF s # <<>> /\ Head(s) \in {"NUL", "TAB", "LF", "CR", " "} THEN LStripC0(Tail(s)) ELSE s

\* ipaddress.IPv4Address._parse_octet: no ValueError
IsOctet(o) ==
    /\ o # <<>>
    /\ \A i \in 1..Len(o) : IsDigit(o[i])
    /\ Len(o) <= 3
    /\ (o = <<"0">> \/ o[1] # "0")
    /\ ToNat(o) <= 255

\* ipaddress.IPv4Address(a): no AddressValueError
IsIPv4Address(a) ==
    LET octets == Split(a, ".")
    IN a # <<>> /\ Len(octets) = 4 /\ \A i \in 1..4 : IsOctet(octets[i])

\* ipaddress.IPv6Address._parse_hextet: no ValueError
IsHextet(h) == h # <<>> /\ Len(h) <= 4 /\ \A i \in 1..Len(h) : IsHexDigit(h[i])

\* ipaddress.IPv6Address._ip_int_from_string from the count of the parts
\* on: no AddressValueError
IsIPv6Parts(parts) ==
    LET n == Len(parts)
        skips == {i \in 2..(n - 1) : parts[i] = <<>>}
        skip == CHOOSE i \in skips : TRUE
        hi == IF parts[1] = <<>> THEN skip - 2 ELSE skip - 1
        lo == IF parts[n] = <<>> THEN n - skip - 1 ELSE n - skip
    IN /\ n <= 9
       /\ Cardinality(skips) <= 1
       /\ IF skips # {}
          THEN /\ parts[1] = <<>> => hi = 0
               /\ parts[n] = <<>> => lo = 0
               /\ 8 - (hi + lo) >= 1
               /\ \A i \in 1..n :
                     (i <= hi \/ i > n - lo) => IsHextet(parts[i])
          ELSE /\ n = 8
               /\ \A i \in 1..n : IsHextet(parts[i])

\* _ip_int_from_string on the text split at ":"; an IPv4 suffix is
\* replaced by its two hextets
IsIPv6Split(split) ==
    LET last == split[Len(split)]
        v4 == FindFrom(last, {"."}, 1) >= 0
    IN /\ Len(split) >= 3
       /\ v4 => IsIPv4Address(last)
       /\ IsIPv6Parts(IF v4
                      THEN SubSeq(split, 1, Len(split) - 1) \o <<<<"0">>, <<"0">>>>
                      ELSE split)

\* ipaddress.IPv6Address._ip_int_from_string(a): no AddressValueError
IsIPv6Int(a) == a # <<>> /\ IsIPv6Split(Split(a, ":"))

\* ipaddress.IPv6Address(a): no AddressValueError
IsIPv6Address(a) ==
    LET pct == FindFrom(a, {"%"}, 1)
        addr == IF pct < 0 THEN a ELSE SubSeq(a, 1, pct)
        scope == IF pct < 0 THEN <<>> ELSE SubSeq(a, pct + 2, Len(a))
    IN /\ FindFrom(a, {"/"}, 1) < 0
       /\ pct >= 0 => (scope # <<>> /\ FindFrom(scope, {"%"}, 1) < 0)
       /\ IsIPv6Int(addr)

\* re.match(r"\Av[a-fA-F0-9]+\..+\Z", h): "v", hexadecimal digits, a dot and
\* one or more characters other than a line feed
IsIPvFuture(h) ==
    \E dot \in 3..(Len(h) - 1) :
        /\ h[1] = "v"
        /\ \A i \in 2..(dot - 1) : IsHexDigit(h[i])
        /\ h[dot] = "."
        /\ \A i \in (dot + 1)..Len(h) : h[i] # "LF"

\* urllib.parse._check_bracketed_host(hostname): no ValueError
check_bracketed_host(hostname) ==
    IF hostname # <<>> /\ hostname[1] = "v" THEN IsIPvFuture(hostname)
    ELSE ~IsIPv4Address(hostname) /\ IsIPv6Address(hostname)

\* urllib.parse._checknetloc(netloc): no ValueError
checknetloc(netloc) ==
    LET n == RemoveChar(RemoveChar(RemoveChar(RemoveChar(netloc, "@"), ":"), "#"), "?")
        netloc2 == nfkc(n)
    IN \/ netloc = <<>>
       \/ IsAscii(netloc)
       \/ n = netloc2
       \/ \A i \in 1..Len(netloc2) : netloc2[i] \notin {"/", "?", "#", "@", ":"}

\* urlsplit from its checks of the netloc on: the scheme and the netloc of
\* the result, ok |-> FALSE for a ValueError
SplitResult(scheme, netloc) ==
    LET open == FindFrom(netloc, {"["}, 1)
        afterOpen == SubSeq(netloc, open + 2, Len(netloc))
        close == FindFrom(afterOpen, {"]"}, 1)
        anyClose == FindFrom(netloc, {"]"}, 1)
        bracketed_host == IF close < 0 THEN afterOpen ELSE SubSeq(afterOpen, 1, close)
        ok == /\ (open >= 0) = (anyClose >= 0)
              /\ open >= 0 => check_bracketed_host(bracketed_host)
              /\ checknetloc(netloc)
    IN IF ok THEN [ok |-> TRUE, scheme |-> scheme, netloc |-> netloc]
       ELSE [ok |-> FALSE, scheme |-> <<>>, netloc |-> <<>>]

\* urlsplit on the text that follows the scheme: _splitnetloc(url, 2) when
\* it starts with "//"
SplitNetloc(scheme, rest) ==
    LET slashes == Len(rest) >= 2 /\ rest[1] = "/" /\ rest[2] = "/"
        delim == FindFrom(rest, {"/", "?", "#"}, 3)
    IN SplitResult(scheme,
                   IF ~slashes THEN <<>>
                   ELSE IF delim < 0 THEN SubSeq(rest, 3, Len(rest))
                   ELSE SubSeq(rest, 3, delim))

\* urlsplit on the text without its leading C0 controls and spaces and
\* without tabs and line ends
SplitScheme(u0) ==
    LET i == FindFrom(u0, {":"}, 1)
        hasScheme ==
            /\ i > 0
            /\ IsAsciiAlpha(u0[1])
            /\ \A j \in 1..i : IsSchemeChar(u0[j])
    IN SplitNetloc(IF hasScheme THEN [j \in 1..i |-> LowerChar(u0[j])] ELSE <<>>,
                   IF hasScheme THEN SubSeq(u0, i + 2, Len(u0)) ELSE u0)

\* urlparse(url): the scheme and the netloc of the result, ok |-> FALSE
\* for a ValueError
urlparse(url) ==
    SplitScheme(RemoveChar(RemoveChar(RemoveChar(LStripC0(url), "TAB"), "CR"), "LF"))

\* parsed.scheme in {"http", "https"} and bool(parsed.netloc)
IsHttpWithNetloc(parsed) ==
    /\ parsed.ok
    /\ parsed.scheme \in {<<"h", "t", "t", "p">>, <<"h", "t", "t", "p", "s">>}
    /\ parsed.netloc # <<>>

is_valid_url(url) == IF url = <<>> THEN FALSE ELSE IsHttpWithNetloc(urlparse(url))

MissingReason(f) == "missing_required_field:" \o f

TooShortReason(n) == "content_too_short:min_" \o ToString(n)

RECURSIVE RequiredReasons(_, _)
RequiredReasons(record, i) ==
    IF i > Len(REQUIRED_FIELDS) THEN <<>>
    ELSE (IF validator_normalize_text(Get(record, REQUIRED_FIELDS[i])) = <<>>
          THEN <<MissingReason(REQUIRED_FIELDS[i])>>
          ELSE <<>>)
         \o RequiredReasons(record, i + 1)

\* a variant that stops at the required-field check when it finds a reason
validate_record_short_circuit(record, min_content_length) ==
    LET url == validator_normalize_text(Get(record, "url"))
        content == validator_normalize_text(Get(record, "content"))
        required == RequiredReasons(record, 1)
    IN IF required # <<>> THEN required
       ELSE (IF url # <<>> /\ ~is_valid_url(url)
             THEN <<"invalid_url_format">> ELSE <<>>)
            \o (IF content # <<>> /\ Len(content) < min_content_length
                THEN <<TooShortReason(min_content_length)>> ELSE <<>>)

\* a variant whose format and length checks do not ask for a non-empty value
validate_record_unguarded(record, min_content_length) ==
    LET url == validator_normalize_text(Get(record, "url"))
        content == validator_normalize_text(Get(record, "content"))
    IN RequiredReasons(record, 1)
       \o (IF ~is_valid_url(url) THEN <<"invalid_url_format">> ELSE <<>>)
       \o (IF Len(content) < min_content_length
           THEN <<TooShortReason(min_content_length)>> ELSE <<>>)

validate_record(record, min_content_length) ==
    LET url == validator_normalize_text(Get(record, "url"))
        content == validator_normalize_text(Get(record, "content"))
    IN RequiredReasons(record, 1)
       \o (IF url # <<>> /\ ~is_valid_url(url)
           THEN <<"invalid_url_format">> ELSE <<>>)
       \o (IF content # <<>> /\ Len(content) < min_content_length
           THEN <<TooShortReason(min_content_length)>> ELSE <<>>)

NoResult == [valid |-> <<>>, invalid |-> <<>>, reasons_flat |-> <<>>]

\* a variant of the loop that appends every record to the valid list
RECURSIVE ValidateLoopNoElse(_, _, _, _)
ValidateLoopNoElse(records, min_content_length, idx, acc) ==
    IF idx >= Len(records) THEN acc
    ELSE LET record == records[idx + 1]
             reasons == validate_record(record, min_content_length)
         IN ValidateLoopNoElse(records, min_content_length, idx + 1,
                IF reasons # <<>>
                THEN [valid |-> Append(acc.valid, record),
                      invalid |-> Append(acc.invalid,
                          [index |-> idx, record |-> record, reasons |-> reasons]),
                      reasons_flat |-> acc.reasons_flat \o reasons]
                ELSE [acc EXCEPT !.valid = Append(acc.valid, record)])

validate_data_no_else(records, min_content_length) ==
    ValidateLoopNoElse(records, min_content_length, 0, NoResult)

\* a variant of the loop that counts the records from 1
RECURSIVE ValidateLoopFromOne(_, _, _, _)
ValidateLoopFromOne(records, min_content_length, idx, acc) ==
    IF idx >= Len(records) THEN acc
    ELSE LET record == records[idx + 1]
             reasons == validate_record(record, min_content_length)
         IN ValidateLoopFromOne(records, min_content_length, idx + 1,
                IF reasons # <<>>
                THEN [valid |-> acc.valid,
                      invalid |-> Append(acc.invalid,
                          [index |-> idx + 1, record |-> record, reasons |-> reasons]),
                      reasons_flat |-> acc.reasons_flat \o reasons]
                ELSE [acc EXCEPT !.valid = Append(acc.valid, record)])

validate_data_from_one(records, min_content_length) ==
    ValidateLoopFromOne(records, min_content_length, 0, NoResult)

\* the loop of validate_data from the record of 0-based index idx on
RECURSIVE ValidateLoop(_, _, _, _)
ValidateLoop(records, min_content_length, idx, acc) ==
    IF idx >= Len(records) THEN acc
    ELSE LET record == records[idx + 1]
             reasons == validate_record(record, min_content_length)
         IN ValidateLoop(records, min_content_length, idx + 1,
                IF reasons # <<>>
                THEN [valid |-> acc.valid,
                      invalid |-> Append(acc.invalid,
                          [index |-> idx, record |-> record, reasons |-> reasons]),
                      reasons_flat |-> acc.reasons_flat \o reasons]
                ELSE [acc EXCEPT !.valid = Append(acc.valid, record)])

validate_data(records, min_content_length) ==
    ValidateLoop(records, min_content_length, 0, NoResult)

-----------------------------------------------------------------------------
(* cleaner.py: the quality report *)

\* a variant that counts the records that carry the field at all
present_count_has_key(records, field) ==
    Cardinality({i \in 1..Len(records) : field \in DOMAIN records[i]})

\* line 188: the records whose normalized field is not empty
present_count(records, field) ==
    Cardinality({i \in 1..Len(records) : normalize_text(Get(records[i], field)) # <<>>})

\* A Python float x >= 0 (an IEEE 754 double): zero, or the 53 bits of its
\* significand, least significant first, and the exponent of the lowest
\* bit, so that x = (sum of m[i] * 2^(i - 1)) * 2^e
FloatZero == [zero |-> TRUE, m |-> <<>>, e |-> 0]

RECURSIVE Pow2(_)
Pow2(i) == IF i = 0 THEN 1 ELSE 2 * Pow2(i - 1)

\* 2^i modulo n by repeated squaring, n < 2^15
RECURSIVE Pow2Mod(_, _)
Pow2Mod(i, n) ==
    IF i = 0 THEN 1 % n
    ELSE LET h == Pow2Mod(i \div 2, n)
         IN (((h * h) % n) * (IF i % 2 = 1 THEN 2 ELSE 1)) % n

RECURSIVE BitsToNat(_)
BitsToNat(bits) == IF bits = <<>> THEN 0 ELSE Head(bits) + 2 * BitsToNat(Tail(bits))

\* bits + 1
AddOne(bits) ==
    LET L == Len(bits)
        z == CHOOSE i \in 1..(L + 1) : (i = L + 1 \/ bits[i] = 0) /\ \A j \in 1..(i - 1) : bits[j] = 1
    IN [i \in 1..(IF z > L THEN z ELSE L) |->
           IF i < z THEN 0 ELSE IF i = z THEN 1 ELSE bits[i]]

\* a number of LimbBits bits per limb, least significant limb first
LimbBits == 13

Limbs(bits) ==
    [j \in 1..((Len(bits) + LimbBits - 1) \div LimbBits) |->
        BitsToNat(SubSeq(bits, LimbBits * (j - 1) + 1,
                         IF LimbBits * j < Len(bits) THEN LimbBits * j ELSE Len(bits)))]

\* limbs * c + carry for a small natural c
RECURSIVE MulLimbs(_, _, _)
MulLimbs(limbs, c, carry) ==
    IF limbs = <<>>
    THEN (IF carry = 0 THEN <<>>
          ELSE <<carry % Pow2(LimbBits)>> \o MulLimbs(<<>>, c, carry \div Pow2(LimbBits)))
    ELSE LET v == Head(limbs) * c + carry
         IN <<v % Pow2(LimbBits)>> \o MulLimbs(Tail(limbs), c, v \div Pow2(LimbBits))

\* the bits of a number given by its limbs, up to its highest 1
LimbsToBits(limbs) ==
    LET all == [i \in 1..(LimbBits * Len(limbs)) |->
                   (limbs[(i - 1) \div LimbBits + 1] \div Pow2((i - 1) % LimbBits)) % 2]
        ones == {i \in 1..Len(all) : all[i] = 1}
        top == IF ones = {} THEN 0 ELSE CHOOSE i \in ones : \A j \in ones : j <= i
    IN SubSeq(all, 1, top)

\* bits * c for a small natural c
MulSmall(bits, c) == LimbsToBits(MulLimbs(Limbs(bits), c, 0))

\* the exact value bits * 2^e rounded to a double, ties to even
RoundToDouble(bits, e) ==
    LET L == Len(bits)
        d == L - 53
        high == SubSeq(bits, d + 1, L)
        up == /\ bits[d] = 1
              /\ (high[1] = 1 \/ \E i \in 1..(d - 1) : bits[i] = 1)
        h == IF up THEN AddOne(high) ELSE high
    IN IF L <= 53
       THEN [zero |-> FALSE, m |-> [i \in 1..(53 - L) |-> 0] \o bits, e |-> e - (53 - L)]
       ELSE IF Len(h) = 54 THEN [zero |-> FALSE, m |-> Tail(h), e |-> e + d + 1]
       ELSE [zero |-> FALSE, m |-> h, e |-> e + d]

\* the least s with k * 2^s >= n, for 0 < k
RECURSIVE ShiftUp(_, _)
ShiftUp(k, n) == IF k >= n THEN 0 ELSE 1 + ShiftUp(2 * k, n)

\* the greatest t with n * 2^t <= k, for n <= k
RECURSIVE ShiftDown(_, _)
ShiftDown(k, n) == IF 2 * n > k THEN 0 ELSE 1 + ShiftDown(k, 2 * n)

\* k / n of two ints, 0 <= k and 0 < n < 2^15: the quotient correctly
\* rounded. With b <= a < 2b and k / n = (a / b) * 2^x, the bits are the
\* leading 1, the next 54 bits of a / b (the i-th is the integer part of
\* 2 * ((a - b) * 2^(i-1) mod b) / b) and a last bit for a remainder left
TrueDivide(k, n) ==
    LET s == ShiftUp(k, n)
        t == ShiftDown(k, n)
        a == IF k < n THEN k * Pow2(s) ELSE k
        b == IF k < n THEN n ELSE n * Pow2(t)
        r == a - b
        left == (r * Pow2Mod(54, b)) % b
        bits == <<IF left # 0 THEN 1 ELSE 0>>
                    \o [i \in 1..54 |-> (2 * ((r * Pow2Mod(54 - i, b)) % b)) \div b]
                    \o <<1>>
    IN IF k = 0 THEN FloatZero
       ELSE RoundToDouble(bits, (IF k < n THEN -s ELSE t) - 55)

\* x * 100.0
TimesHundred(x) ==
    IF x.zero THEN FloatZero ELSE RoundToDouble(MulSmall(x.m, 100), x.e)

\* _completeness_percent
completeness_percent(records, field) ==
    IF Len(records) = 0 THEN FloatZero
    ELSE TimesHundred(TrueDivide(present_count(records, field), Len(records)))

\* the double x, x < 2^20, in tenths, rounded to the nearest with ties to
\* even, as format(x, ".1f") rounds its exact value
Tenths(x) ==
    LET p == MulSmall(x.m, 10)
        f == -x.e
        whole == BitsToNat(SubSeq(p, f + 1, Len(p)))
        up == /\ f <= Len(p)
              /\ p[f] = 1
              /\ (whole % 2 = 1 \/ \E i \in 1..(f - 1) : p[i] = 1)
    IN IF x.zero THEN 0 ELSE IF up THEN whole + 1 ELSE whole

\* format(x, ".1f")
FormatFixed1(x) ==
    LET t == Tenths(x)
    IN ToString(t \div 10) \o "." \o ToString(t % 10)

\* format(x, "5.1f"): as FormatFixed1, right-aligned in five columns
FormatFixed1Width5(x) ==
    LET t == Tenths(x)
    IN (IF t < 100 THEN "  " ELSE IF t < 1000 THEN " " ELSE "")
           \o ToString(t \div 10) \o "." \o ToString(t % 10)

\* format(f, "10s") of a required field name
FormatName10(f) ==
    CASE f = "title" -> "title     "
      [] f = "content" -> "content   "
      [] f = "url" -> "url       "

CountOf(list, x) == Cardinality({i \in 1..Len(list) : list[i] = x})

\* Counter(reason_list): the distinct reasons in the order of their first
\* occurrence, each with its count
RECURSIVE Counter(_, _)
Counter(list, i) ==
    IF i > Len(list) THEN <<>>
    ELSE (IF \E j \in 1..(i - 1) : list[j] = list[i] THEN <<>>
          ELSE <<[reason |-> list[i], count |-> CountOf(list, list[i])]>>)
         \o Counter(list, i + 1)

\* sorted(items, key=count, reverse=True): a stable insertion into a list
\* sorted by descending count
RECURSIVE InsertByCount(_, _)
InsertByCount(sorted, item) ==
    IF sorted = <<>> THEN <<item>>
    ELSE IF Head(sorted).count >= item.count
         THEN <<Head(sorted)>> \o InsertByCount(Tail(sorted), item)
         ELSE <<item>> \o sorted

\* the same insertion placing an item before the items of equal count
RECURSIVE InsertByCountUnstable(_, _)
InsertByCountUnstable(sorted, item) ==
    IF sorted = <<>> THEN <<item>>
    ELSE IF Head(sorted).count > item.count
         THEN <<Head(sorted)>> \o InsertByCountUnstable(Tail(sorted), item)
         ELSE <<item>> \o sorted

RECURSIVE SortByCountUnstable(_, _)
SortByCountUnstable(items, i) ==
    IF i = 0 THEN <<>>
    ELSE InsertByCountUnstable(SortByCountUnstable(items, i - 1), items[i])

RECURSIVE SortByCount(_, _)
SortByCount(items, i) ==
    IF i = 0 THEN <<>>
    ELSE InsertByCount(SortByCount(items, i - 1), items[i])

\* a variant of most_common whose ties come out last-encountered first
most_common_unstable(reason_list, n) ==
    LET items == Counter(reason_list, 1)
        sorted == SortByCountUnstable(items, Len(items))
    IN IF n <= 0 THEN <<>>
       ELSE SubSeq(sorted, 1, IF n < Len(sorted) THEN n ELSE Len(sorted))

\* Counter(reason_list).most_common(n)
most_common(reason_list, n) ==
    LET items == Counter(reason_list, 1)
        sorted == SortByCount(items, Len(items))
    IN IF n <= 0 THEN <<>>
       ELSE SubSeq(sorted, 1, IF n < Len(sorted) THEN n ELSE Len(sorted))

Rule(ch) ==
    ch \o ch \o ch \o ch \o ch \o ch \o ch \o ch \o ch \o ch \o ch \o ch
       \o ch \o ch \o ch \o ch \o ch \o ch \o ch \o ch \o ch \o ch \o ch \o ch
       \o ch \o ch \o ch \o ch \o ch \o ch \o ch \o ch \o ch \o ch \o ch \o ch
       \o ch \o ch \o ch \o ch \o ch \o ch \o ch \o ch \o ch \o ch \o ch \o ch
       \o ch \o ch \o ch \o ch \o ch \o ch \o ch \o ch \o ch \o ch \o ch \o ch

\* the lines of the report; now is datetime.now(timezone.utc).isoformat()
generate_report(processed_records, valid_records, invalid_records, reason_list, top_n_failures, now) ==
    LET total == Len(processed_records)
        valid_count == Len(valid_records)
        invalid_count == Len(invalid_records)
        top == most_common(reason_list, top_n_failures)
    IN << Rule("="), "Data Quality Report", Rule("="),
          "Generated at (UTC): " \o now,
          "",
          "Summary",
          Rule("-"),
          "Total records processed: " \o ToString(total),
          "Valid records: " \o ToString(valid_count),
          "Invalid records: " \o ToString(invalid_count),
          IF total # 0
          THEN "Valid rate: "
                   \o FormatFixed1(TimesHundred(TrueDivide(valid_count, total))) \o "%"
          ELSE "Valid rate: 0.0%",
          "",
          "Completeness by field (%)",
          Rule("-") >>
       \o [i \in 1..Len(REQUIRED_FIELDS) |->
              FormatName10(REQUIRED_FIELDS[i]) \o ": "
                  \o FormatFixed1Width5(
                         completeness_percent(processed_records, REQUIRED_FIELDS[i]))
                  \o "%"]
       \o << "", "Common validation failures", Rule("-") >>
       \o (IF reason_list # <<>>
           THEN [i \in 1..Len(top) |-> top[i].reason \o ": " \o ToString(top[i].count)]
           ELSE <<"None">>)
       \o << Rule("=") >>

-----------------------------------------------------------------------------
(* Texts of the model: concatenations of at most MaxTextPieces pieces *)

MaxTextPieces == 3

TextPieces ==
    { <<"&">>, <<"a", "m", "p", ";">>, <<"a", "m", "p">>, <<"a">>, <<";">>,
      <<" ">>, <<"NBSP">>, <<"ZWSP">>, <<"NUL">>, <<"CR">>, <<"LF">>,
      <<"TAB">>, <<"FWAMP">> }

RECURSIVE Concats(_, _)
Concats(pieces, k) ==
    IF k = 0 THEN {<<>>}
    ELSE LET shorter == Concats(pieces, k - 1)
         IN shorter \cup {x \o p : x \in shorter, p \in pieces}

Texts == Concats(TextPieces, MaxTextPieces)

-----------------------------------------------------------------------------
(* Records of the model.  A record maps field names to Python values; a   *)
(* field drawn as Absent is left out of the record.                       *)

Absent == [t |-> "absent", s |-> <<>>, n |-> 0]

MkRecord(fields) ==
    [f \in {g \in DOMAIN fields : fields[g] # Absent} |-> fields[f]]

MaxUrlPieces == 3

UrlPieces ==
    { <<"h", "t", "t", "p", ":">>, <<"H", "T", "T", "P", "S", ":">>,
      <<"/", "/">>, <<"/">>, <<"x">>, <<"?">>, <<"#">>, <<"[">>,
      <<"[", ":", ":", "1", "]">> }

Urls == Concats(UrlPieces, MaxUrlPieces)

MaxContentPieces == 3

ContentPieces == { <<"a">>, <<" ">>, <<"a", "a", "a", "a">>, <<"&", "a", "m", "p", ";">> }

Contents == Concats(ContentPieces, MaxContentPieces)

StrValues(texts) == {PyStr(x) : x \in texts}

TitleValues ==
    {Absent, PyNone, PyInt(0)} \cup StrValues({<<>>, <<"a">>, <<"NBSP">>})

CoreContentValues ==
    {PyNone}
        \cup StrValues({<<"a", "a">>,
                        <<"a", "a", "a", "a", " ", "a", "a", "a", "a", "a">>})

CoreUrlValues ==
    {Absent, PyNone}
        \cup StrValues({<<" ">>, <<"x">>, <<"h", "t", "t", "p", ":", "/", "/", "x">>,
                        <<"f", "t", "p", ":", "/", "/", "x">>,
                        <<"h", "t", "t", "p", ":", "/", "/", "x", "]">>,
                        <<"h", "t", "t", "p", ":", "/", "/", ":", "8", "0">>,
                        <<"h", "t", "t", "p", "s", ":", "/", "/", "@">>,
                        <<"h", "t", "t", "p", ":", "/", "/", "a", "@", "x", ":", "8", "0">>,
                        <<"h", "t", "t", "p", "s", ":", "/", "/", "[", "v", "1", ".", "x", "]", ":", "8", "0">>})

CoreTitleValues == {PyNone, PyStr(<<"a">>)}

\* the records with every url and a few contents, and those with every
\* content and a few urls
ValidatorRecordsOver(urls, contents) ==
    {MkRecord([title |-> t, content |-> c, url |-> u]) :
        t \in CoreTitleValues, c \in CoreContentValues,
        u \in {Absent, PyNone} \cup StrValues(urls)}
    \cup
    {MkRecord([title |-> t, content |-> c, url |-> u]) :
        t \in TitleValues, c \in {Absent, PyNone} \cup StrValues(contents),
        u \in CoreUrlValues}

MIN_CONTENT_LENGTH == 10

MinContentLengths == {0, 3, MIN_CONTENT_LENGTH}

-----------------------------------------------------------------------------
(* Date values of the model *)

DateFields ==
    { <<"2", "0", "2", "0">>, <<"2", "0", "2", "1">>, <<"0", "1">>, <<"1">>,
      <<"0", "2">>, <<"1", "3">>, <<"2", "9">>, <<"3", "1">> }

\* the separator after the first and after the second field
DateSeparators ==
    { <<"-", "-">>, <<"/", "/">>, <<".", ".">>, <<"-", "/">> }

TimeSuffixes ==
    { <<>>,
      <<" ", "1", "0", ":", "3", "0">>,
      <<"TAB", "1", "0", ":", "3", "0", ":", "0", "5">>,
      <<" ", "1", ":", "5">>,
      <<" ", "2", "4", ":", "0", "0">>,
      <<" ", "1", "0", ":", "3", "0", ":", "6", "1">>,
      <<"T", "1", "0", ":", "3", "0", ":", "0", "5", "Z">>,
      <<"T", "0", "0", ":", "3", "0", "+", "0", "1", ":", "0", "0">>,
      <<"T", "1", "0", ":", "3", "0", " ", "-", "0", "1", ":", "0", "0">>,
      <<"T", "1", "0", ":", "3", "0", "+", "2", "4", ":", "0", "0">>,
      <<"T", "1", "0", ":", "3", "0", ":", "0", "5", ".", "5", "Z">>,
      <<"Z">> }

NumericDateTexts ==
    {a \o <<p[1]>> \o b \o <<p[2]>> \o c \o t :
        a \in DateFields, b \in DateFields, c \in DateFields,
        p \in DateSeparators, t \in TimeSuffixes}

MonthWords ==
    { <<"J", "a", "n">>, <<"j", "a", "n">>, <<"J", "a", "n", "u", "a", "r", "y">>,
      <<"M", "a", "y">>, <<"F", "E", "B">>, <<"J", "a", "n", "u">> }

NamedDateTexts ==
    {w \o p \o d \o q \o y :
        w \in MonthWords, p \in {<<" ">>, <<"NBSP", " ">>, <<>>},
        d \in {<<"1">>, <<"0", "1">>, <<"2", "9">>, <<"3", "0">>, <<"3", "2">>},
        q \in {<<",", " ">>, <<",">>, <<" ">>},
        y \in {<<"2", "0", "2", "0">>, <<"2", "0", "2", "1">>, <<"2", "0">>}}

OtherDateTexts ==
    { <<>>, <<" ">>, <<"a">>, <<"&", "a", "m", "p", ";", "a", "m", "p", ";">>,
      <<"2", "0", "2", "0">>, <<"2", "0", "2", "0", "-", "0", "1">>,
      <<"2", "0", "2", "0", "0", "1", "0", "2">>,
      <<"2", "0", "2", "0", "-", "W", "0", "1", "-", "1">>,
      <<"1", "9", "7", "0", "-", "0", "1", "-", "0", "1", "T", "0", "0", ":", "3", "0",
        "+", "0", "1", ":", "0", "0">>,
      <<"0", "0", "0", "1", "-", "0", "1", "-", "0", "1", "T", "0", "0", ":", "3", "0",
        "+", "0", "1", ":", "0", "0">>,
      <<"2", "0", "2", "0", "-", "0", "1", "-", "0", "2", "T", "1", "0", ":", "3", "0",
        "-", "9", "9", ":", "0", "0">>,
      <<" ", "0", "1", "/", "0", "2", "/", "2", "0", "2", "0", "LF">>,
      <<"0", "1", "/", "0", "2", "/", "2", "0", "2", "0", "ZWSP">>,
      <<"0", "1", " ", "/", "0", "2", "/", "2", "0", "2", "0">> }

DateTexts == NumericDateTexts \cup NamedDateTexts \cup OtherDateTexts

Timestamps == {-86401, -1, 0, 86399, 86400, 951782400, 1577836800, 1709251199}

DateValues == {PyNone} \cup {PyInt(n) : n \in Timestamps} \cup StrValues(DateTexts)

-----------------------------------------------------------------------------
(* Raw records of the model *)

MaxHtmlPieces == 3

HtmlPieces ==
    { <<"<">>, <<">">>, <<"p">>, <<"a">>, <<" ">>, <<"&">>, <<"a", "m", "p", ";">>,
      <<"<", "p", ">">> }

HtmlTexts == Concats(HtmlPieces, MaxHtmlPieces)

RawDateValues ==
    {Absent, PyNone, PyInt(-1), PyInt(1577836800)}
        \cup StrValues({ <<>>, <<"NBSP">>,
                         <<"1", "9", "7", "0", "-", "0", "1", "-", "0", "1", "T", "0", "0",
                           ":", "3", "0", "+", "0", "1", ":", "0", "0">>,
                         <<"0", "1", "/", "0", "2", "/", "2", "0", "2", "0">>,
                         <<"2", "0", "2", "0", "-", "0", "1", "-", "0", "2">>,
                         <<"J", "a", "n", " ", "1", ",", " ", "2", "0", "2", "0">>,
                         <<"a", " ", " ", "a">>,
                         <<"&", "a", "m", "p", ";", "a", "m", "p", ";">>,
                         <<"FWAMP", "a", "m", "p", ";">> })

RawOtherValues ==
    {Absent, PyNone, PyInt(5)}
        \cup StrValues({ <<"a", "TAB", "a">>, <<"&", "a", "m", "p", ";", "a", "m", "p">> })

RawRecordsOver(titles) ==
    {MkRecord([title |-> t, content |-> PyStr(<<"a", "<", "p", ">", "a">>),
               url |-> PyStr(<<" ", "x">>), date |-> d, time |-> PyNone,
               source |-> o]) :
        t \in {Absent, PyNone} \cup StrValues(titles),
        d \in {Absent, PyStr(<<"a", " ", " ", "a">>)},
        o \in {Absent, PyStr(<<"a", "TAB", "a">>)}}
    \cup
    {MkRecord([title |-> t, content |-> c, url |-> u, date |-> d, time |-> m,
               source |-> o]) :
        t \in {Absent, PyStr(<<"a", "<", "p", ">", "a">>)},
        c \in {Absent, PyInt(5)},
        u \in {Absent, PyStr(<<"h", "t", "t", "p", ":", "/", "/", "x", " ">>)},
        d \in RawDateValues, m \in RawDateValues, o \in RawOtherValues}

-----------------------------------------------------------------------------
(* Batches of the model *)

MaxBatch == 3

BatchRecords ==
    { MkRecord([title |-> PyStr(<<"a">>),
                content |-> PyStr(<<"a", "a", "a", "a", " ", "a", "a", "a", "a", "a">>),
                url |-> PyStr(<<"h", "t", "t", "p", "s", ":", "/", "/", "x">>),
                date |-> PyInt(0)]),
      MkRecord([title |-> PyStr(<<" ">>),
                content |-> PyStr(<<"a", "a", "a", "a", "a", "a", "a", "a", "a", "a">>),
                url |-> PyStr(<<"h", "t", "t", "p", ":", "/", "/", "x">>)]),
      MkRecord([title |-> PyStr(<<"a">>),
                content |-> PyStr(<<"a", "a", "a", "a", "a", "a", "a", "a", "a", "a">>),
                url |-> PyStr(<<"x">>)]),
      MkRecord([title |-> PyNone, content |-> PyStr(<<"a", "a", "a">>),
                url |-> PyStr(<<"f", "t", "p", ":", "/", "/", "x">>)]),
      MkRecord([content |-> PyStr(<<"NBSP">>), url |-> PyNone, title |-> PyInt(0)]) }

RECURSIVE SeqsUpTo(_, _)
SeqsUpTo(S, k) ==
    IF k = 0 THEN {<<>>}
    ELSE LET shorter == SeqsUpTo(S, k - 1)
         IN shorter \cup {Append(x, e) : x \in shorter, e \in S}

Batches == SeqsUpTo(BatchRecords, MaxBatch)

BatchMinLengths == {3, MIN_CONTENT_LENGTH}

DEFAULT_TOP_N == 5

TopNs == {-1, 0, 1, 2, DEFAULT_TOP_N}

Clock == {"2024-02-29T23:59:59.999999+00:00", "2026-01-01T00:00:00+00:00"}

RawBatchRecords ==
    { MkRecord([title |-> PyStr(<<"<", "p", ">", "a", "<", "/", "p", ">">>),
                content |-> PyStr(<<"a", "a", "a", "a", "TAB", "a", "a", "a", "a", "a">>),
                url |-> PyStr(<<" ", "h", "t", "t", "p", ":", "/", "/", "x", "LF">>),
                date |-> PyStr(<<"0", "1", "/", "0", "2", "/", "2", "0", "2", "0">>)]),
      MkRecord([title |-> PyStr(<<"<", "p", ">">>),
                content |-> PyStr(<<"a", "&", "a", "m", "p", ";", "a", "m", "p", ";", "a">>),
                url |-> PyStr(<<"h", "t", "t", "p", ":", "/", "/", "x">>)]),
      MkRecord([title |-> PyStr(<<"&", "a", "m", "p", ";", "a", "m", "p", ";">>),
                content |-> PyStr(<<"<", "a", "a", "a", "a", "a", "a", "a", "a", "a", ">">>),
                url |-> PyStr(<<"x">>), source |-> PyInt(5)]),
      MkRecord([title |-> PyStr(<<"a">>), url |-> PyStr(<<"ZWSP">>),
                content |-> PyStr(<<"a", "a", "a", "a", "a", "a", "a", "a", "a", "a">>)]),
      MkRecord([raw |-> PyInt(5), error |-> PyStr(<<"a">>)]) }

RawBatches == SeqsUpTo(RawBatchRecords, MaxBatch)

-----------------------------------------------------------------------------
(* Idle values of the variables a specification does not use *)

IdleText == nt_pc = "idle" /\ nt_in = <<>> /\ nt_once = <<>> /\ nt_twice = <<>>

IdleValidate ==
    vr_pc = "idle" /\ vr_record = <<>> /\ vr_min = 0 /\ vr_reasons = <<>>

IdleDate == pd_pc = "idle" /\ pd_in = PyNone /\ pd_out = PyNone

IdleClean ==
    cr_pc = "idle" /\ cr_record = <<>> /\ cr_before = <<>> /\ cr_cleaned = <<>>

IdlePipe ==
    /\ pl_pc = "idle" /\ pl_raw = <<>> /\ pl_cleaned = <<>> /\ pl_min = 0
    /\ pl_valid = <<>> /\ pl_invalid = <<>> /\ pl_reasons = <<>>
    /\ pl_top_n = 0 /\ pl_report = <<>>

-----------------------------------------------------------------------------
(* Specification SpecText: normalize_text applied once and then again *)

InitText ==
    /\ nt_pc = "start"
    /\ nt_in \in Texts
    /\ nt_once = <<>>
    /\ nt_twice = <<>>
    /\ IdleValidate /\ IdleDate /\ IdleClean /\ IdlePipe

NormalizeOnce ==
    /\ nt_pc = "start"
    /\ nt_once' = normalize_text(PyStr(nt_in))
    /\ nt_pc' = "once"
    /\ UNCHANGED <<nt_in, nt_twice, valVars, dateVars, cleanVars, pipeVars>>

NormalizeTwice ==
    /\ nt_pc = "once"
    /\ nt_twice' = normalize_text(PyStr(nt_once))
    /\ nt_pc' = "twice"
    /\ UNCHANGED <<nt_in, nt_once, valVars, dateVars, cleanVars, pipeVars>>

NextText == NormalizeOnce \/ NormalizeTwice

SpecText == InitText /\ [][NextText]_vars

\* C2: normalize_text is idempotent: a second application changes nothing
C2_Idempotent == nt_pc = "twice" => nt_twice = nt_once

-----------------------------------------------------------------------------
(* Specification SpecValidate: validate_record on one record *)

InitValidate ==
    /\ vr_pc = "start"
    /\ vr_record \in ValidatorRecordsOver(Urls, Contents)
    /\ vr_min \in MinContentLengths
    /\ vr_reasons = <<>>
    /\ IdleText /\ IdleDate /\ IdleClean /\ IdlePipe

ValidateRecord ==
    /\ vr_pc = "start"
    /\ vr_reasons' = validate_record(vr_record, vr_min)
    /\ vr_pc' = "done"
    /\ UNCHANGED <<vr_record, vr_min, textVars, dateVars, cleanVars, pipeVars>>

NextValidate == ValidateRecord

SpecValidate == InitValidate /\ [][NextValidate]_vars

NormalizedField(record, f) == validator_normalize_text(Get(record, f))

HasPrefixIgnoringCase(s, p) ==
    Len(s) >= Len(p) /\ \A i \in 1..Len(p) : LowerChar(s[i]) = p[i]

\* the text of s before its first "/", "?" or "#"
C3_Authority(s) ==
    LET ends == {i \in 1..Len(s) : s[i] \in {"/", "?", "#"}}
    IN IF ends = {} THEN s
       ELSE SubSeq(s, 1, (CHOOSE i \in ends : \A j \in ends : i <= j) - 1)

\* an authority without square brackets, or one whose first bracketed part
\* is an IPv6 or IPvFuture literal
C3_WellFormed(a) ==
    LET opens == {i \in 1..Len(a) : a[i] = "["}
        first == CHOOSE i \in opens : \A j \in opens : i <= j
        closes == {i \in 1..Len(a) : a[i] = "]"}
        after == {i \in closes : i > first}
        last == IF after = {} THEN Len(a) + 1
                ELSE CHOOSE i \in after : \A j \in after : i <= j
    IN IF opens = {} \/ closes = {} THEN opens = closes
       ELSE check_bracketed_host(SubSeq(a, first + 1, last - 1))

\* the host of an authority: what follows its last "@", up to the first
\* ":" or, when it holds a "[", between that and the next "]"
C3_Host(a) ==
    LET ats == {i \in 1..Len(a) : a[i] = "@"}
        from == IF ats = {} THEN 1 ELSE (CHOOSE i \in ats : \A j \in ats : i >= j) + 1
        hostinfo == SubSeq(a, from, Len(a))
        opens == {i \in 1..Len(hostinfo) : hostinfo[i] = "["}
        open == IF opens = {} THEN 0 ELSE CHOOSE i \in opens : \A j \in opens : i <= j
        ends == {i \in (open + 1)..Len(hostinfo) :
                    hostinfo[i] = (IF opens = {} THEN ":" ELSE "]")}
        end == IF ends = {} THEN Len(hostinfo) + 1
               ELSE CHOOSE i \in ends : \A j \in ends : i <= j
    IN SubSeq(hostinfo, open + 1, end - 1)

C3_HttpPrefixes ==
    {<<"h", "t", "t", "p", ":", "/", "/">>, <<"h", "t", "t", "p", "s", ":", "/", "/">>}

\* an http or https URL whose authority is well formed and not empty
IsHttpUrlWithAuthority(url) ==
    \E p \in C3_HttpPrefixes :
        /\ HasPrefixIgnoringCase(url, p)
        /\ LET a == C3_Authority(SubSeq(url, Len(p) + 1, Len(url)))
           IN a # <<>> /\ C3_WellFormed(a)

\* an http or https URL whose authority is well formed and whose host is
\* not empty
IsHttpUrlWithHost(url) ==
    \E p \in C3_HttpPrefixes :
        /\ HasPrefixIgnoringCase(url, p)
        /\ LET a == C3_Authority(SubSeq(url, Len(p) + 1, Len(url)))
           IN C3_WellFormed(a) /\ C3_Host(a) # <<>>

\* the reasons of the closed vocabulary with their conditions, url_ok
\* telling whether the normalized url counts as a valid URL
C3_Candidates(record, n, url_ok) ==
    << [reason |-> "missing_required_field:title",
        on |-> NormalizedField(record, "title") = <<>>],
       [reason |-> "missing_required_field:content",
        on |-> NormalizedField(record, "content") = <<>>],
       [reason |-> "missing_required_field:url",
        on |-> NormalizedField(record, "url") = <<>>],
       [reason |-> "invalid_url_format",
        on |-> NormalizedField(record, "url") # <<>> /\ ~url_ok],
       [reason |-> "content_too_short:min_" \o ToString(n),
        on |-> /\ NormalizedField(record, "content") # <<>>
               /\ Len(NormalizedField(record, "content")) < n] >>

C3_Expected(record, n, url_ok) ==
    LET chosen == SelectSeq(C3_Candidates(record, n, url_ok), LAMBDA c : c.on)
    IN [i \in 1..Len(chosen) |-> chosen[i].reason]

\* C3 as amended: validate_record returns exactly the reasons of the closed
\* vocabulary whose condition holds, every check evaluated, in the fixed
\* order (the missing fields in the order title, content, url, then the
\* URL format, then the content length), and no reason twice, where
\* invalid_url_format is emitted iff the normalized url is not empty and is
\* not an http/https URL with a non-empty authority (netloc)
C3_ReasonsExact ==
    vr_pc = "done" =>
        /\ vr_reasons =
               C3_Expected(vr_record, vr_min,
                           IsHttpUrlWithAuthority(NormalizedField(vr_record, "url")))
        /\ \A i, j \in 1..Len(vr_reasons) : vr_reasons[i] = vr_reasons[j] => i = j

\* C3 as stated: the same, with invalid_url_format emitted iff the
\* normalized url is not empty and is not an http/https URL with a
\* non-empty host; "http://:80" has an authority and no host, and
\* validate_record does not flag it
C3_ReasonsExactHost ==
    vr_pc = "done" =>
        /\ vr_reasons =
               C3_Expected(vr_record, vr_min,
                           IsHttpUrlWithHost(NormalizedField(vr_record, "url")))
        /\ \A i, j \in 1..Len(vr_reasons) : vr_reasons[i] = vr_reasons[j] => i = j

\* a record with three independent failures, all of them reported
C3_Witness ==
    /\ vr_pc = "done"
    /\ vr_reasons = <<"missing_required_field:title", "invalid_url_format",
                      "content_too_short:min_10">>

InReasons(reasons, r) == \E i \in 1..Len(reasons) : reasons[i] = r

\* C4: no double-flagging: a missing content is never also too short, a
\* missing url is never also an invalid url; an empty url or content
\* yields the missing reason alone for that field
C4_NoDoubleFlag ==
    vr_pc = "done" =>
        /\ ~(/\ InReasons(vr_reasons, "missing_required_field:content")
             /\ InReasons(vr_reasons, "content_too_short:min_" \o ToString(vr_min)))
        /\ ~(/\ InReasons(vr_reasons, "missing_required_field:url")
             /\ InReasons(vr_reasons, "invalid_url_format"))
        /\ (NormalizedField(vr_record, "url") = <<>> =>
                /\ InReasons(vr_reasons, "missing_required_field:url")
                /\ ~InReasons(vr_reasons, "invalid_url_format"))
        /\ (NormalizedField(vr_record, "content") = <<>> =>
                /\ InReasons(vr_reasons, "missing_required_field:content")
                /\ ~InReasons(vr_reasons, "content_too_short:min_" \o ToString(vr_min)))

\* a record whose url and content are text that normalizes to nothing,
\* validated with a positive minimum length
C4_Witness ==
    /\ vr_pc = "done"
    /\ vr_min = 10
    /\ "url" \in DOMAIN vr_record /\ vr_record["url"] = PyStr(<<" ">>)
    /\ "content" \in DOMAIN vr_record /\ vr_record["content"] = PyStr(<<" ", " ">>)
    /\ vr_reasons = <<"missing_required_field:content", "missing_required_field:url">>

-----------------------------------------------------------------------------
(* Specification SpecDate: parse_date_to_iso on one value *)

InitDate ==
    /\ pd_pc = "start"
    /\ pd_in \in DateValues
    /\ pd_out = PyNone
    /\ IdleText /\ IdleValidate /\ IdleClean /\ IdlePipe

ParseDate ==
    /\ pd_pc = "start"
    /\ pd_out' = parse_date_to_iso(pd_in)
    /\ pd_pc' = "done"
    /\ UNCHANGED <<pd_in, textVars, valVars, cleanVars, pipeVars>>

NextDate == ParseDate

SpecDate == InitDate /\ [][NextDate]_vars

\* the formats in the order the specification lists them
C8_ListedOrder ==
    << <<"%Y", "-", "%m", "-", "%d">>,
       <<"%Y", "/", "%m", "/", "%d">>,
       <<"%Y", ".", "%m", ".", "%d">>,
       <<"%Y", "-", "%m", "-", "%d", " ", "%H", ":", "%M">>,
       <<"%Y", "-", "%m", "-", "%d", " ", "%H", ":", "%M", ":", "%S">>,
       <<"%Y", "/", "%m", "/", "%d", " ", "%H", ":", "%M">>,
       <<"%Y", "/", "%m", "/", "%d", " ", "%H", ":", "%M", ":", "%S">>,
       <<"%d", "/", "%m", "/", "%Y">>,
       <<"%m", "/", "%d", "/", "%Y">>,
       <<"%b", " ", "%d", ",", " ", "%Y">>,
       <<"%B", " ", "%d", ",", " ", "%Y">> >>

C8_DayFirst == <<"%d", "/", "%m", "/", "%Y">>

C8_MonthFirst == <<"%m", "/", "%d", "/", "%Y">>

C8_Result(s, p) ==
    PyStr(IF Len(p) = 5 \/ p[1] \in {"%b", "%B"}
          THEN DateIsoFormat(strptime(s, p)) ELSE DateTimeIsoFormat(strptime(s, p)))

\* the text reached the pattern list: it is not empty and not ISO-8601
C8_FailsIso(v) ==
    /\ v.t = "str"
    /\ normalize_text(v) # <<>>
    /\ ~fromisoformat(ReplaceZ(normalize_text(v))).ok

\* C8: when the ISO-8601 attempt fails, the first format of the listed
\* order that matches decides the result, so a text that matches both
\* DD/MM/YYYY and MM/DD/YYYY is read day-first ("01/02/2020" gives
\* "2020-02-01"), and when no format matches there is no result
C8_FirstPatternWins ==
    (pd_pc = "done" /\ C8_FailsIso(pd_in)) =>
        LET s == normalize_text(pd_in)
            matching == {i \in 1..Len(C8_ListedOrder) : strptime(s, C8_ListedOrder[i]).ok}
            first == CHOOSE i \in matching : \A j \in matching : i <= j
        IN /\ (matching = {} => pd_out = PyNone)
           /\ (matching # {} => pd_out = C8_Result(s, C8_ListedOrder[first]))
           /\ (strptime(s, C8_DayFirst).ok /\ strptime(s, C8_MonthFirst).ok
                  => pd_out = PyStr(DateIsoFormat(strptime(s, C8_DayFirst))))
           /\ (s = <<"0", "1", "/", "0", "2", "/", "2", "0", "2", "0">>
                  => pd_out = PyStr(<<"2", "0", "2", "0", "-", "0", "2", "-", "0", "1">>))

\* "01/02/2020", which both formats match, parsed as 1 February
C8_Witness ==
    /\ pd_pc = "done"
    /\ pd_in = PyStr(<<"0", "1", "/", "0", "2", "/", "2", "0", "2", "0">>)
    /\ pd_out = PyStr(<<"2", "0", "2", "0", "-", "0", "2", "-", "0", "1">>)

-----------------------------------------------------------------------------
(* Specification SpecClean: clean_record on one raw record *)

InitClean ==
    /\ cr_pc = "start"
    /\ cr_record \in RawRecordsOver(HtmlTexts)
    /\ cr_before = cr_record
    /\ cr_cleaned = <<>>
    /\ IdleText /\ IdleValidate /\ IdleDate /\ IdlePipe

\* cleaned = dict(record) is a copy: the caller's record keeps its fields
CleanRecord ==
    /\ cr_pc = "start"
    /\ cr_cleaned' = clean_record(cr_record)
    /\ cr_pc' = "done"
    /\ UNCHANGED <<cr_record, cr_before, textVars, valVars, dateVars, pipeVars>>

NextClean == CleanRecord

SpecClean == InitClean /\ [][NextClean]_vars

\* C5: every recognized date field of the cleaned record holds the
\* parse_date_to_iso result of the original value when there is one, and
\* otherwise exactly normalize_text of the original value
C5_DateFields ==
    cr_pc = "done" =>
        \A k \in Range(DATE_KEYS) \cap DOMAIN cr_record :
            cr_cleaned[k] =
                IF parse_date_to_iso(cr_record[k]) # PyNone
                THEN parse_date_to_iso(cr_record[k])
                ELSE PyStr(normalize_text(cr_record[k]))

\* C6: the cleaned record has exactly the field names of the input record,
\* and the input record is as it was before the call
C6_SameFields ==
    cr_pc = "done" =>
        /\ DOMAIN cr_cleaned = DOMAIN cr_record
        /\ cr_record = cr_before

\* a record with required, date and other fields, some of them rewritten
C6_Witness ==
    /\ cr_pc = "done"
    /\ {"title", "url", "date", "time", "source"} \subseteq DOMAIN cr_record
    /\ cr_cleaned # cr_record
    /\ cr_cleaned["source"] # cr_record["source"]

-----------------------------------------------------------------------------
(* The batch operations: clean_data, validate_data, generate_report *)

CleanData ==
    /\ pl_pc = "clean"
    /\ pl_cleaned' = clean_data(pl_raw)
    /\ pl_pc' = "validate"
    /\ UNCHANGED <<pl_raw, pl_min, pl_valid, pl_invalid, pl_reasons, pl_top_n,
                   pl_report, textVars, valVars, dateVars, cleanVars>>

ValidateData ==
    /\ pl_pc = "validate"
    /\ LET r == validate_data(pl_cleaned, pl_min)
       IN /\ pl_valid' = r.valid
          /\ pl_invalid' = r.invalid
          /\ pl_reasons' = r.reasons_flat
    /\ pl_pc' = "report"
    /\ UNCHANGED <<pl_raw, pl_cleaned, pl_min, pl_top_n, pl_report,
                   textVars, valVars, dateVars, cleanVars>>

GenerateReport ==
    /\ pl_pc = "report"
    /\ \E now \in Clock :
          pl_report' = generate_report(pl_cleaned, pl_valid, pl_invalid,
                                       pl_reasons, pl_top_n, now)
    /\ pl_pc' = "done"
    /\ UNCHANGED <<pl_raw, pl_cleaned, pl_min, pl_valid, pl_invalid, pl_reasons,
                   pl_top_n, textVars, valVars, dateVars, cleanVars>>

\* Specification SpecBatch: validate_data on any batch, then the report
InitBatch ==
    /\ pl_pc = "validate"
    /\ pl_raw = <<>>
    /\ pl_cleaned \in Batches
    /\ pl_min \in BatchMinLengths
    /\ pl_top_n \in TopNs
    /\ pl_valid = <<>> /\ pl_invalid = <<>> /\ pl_reasons = <<>> /\ pl_report = <<>>
    /\ IdleText /\ IdleValidate /\ IdleDate /\ IdleClean

NextBatch == ValidateData \/ GenerateReport

SpecBatch == InitBatch /\ [][NextBatch]_vars

Validated == pl_pc \in {"report", "done"}

IsValidRecord(r) == validate_record(r, pl_min) = <<>>

\* C1: the valid and the invalid list partition the batch: their lengths
\* add up to the batch's, every element is in exactly one of them, and it
\* is in the valid list iff validate_record gives it no reason
C1_Partition ==
    Validated =>
        /\ Len(pl_valid) + Len(pl_invalid) = Len(pl_cleaned)
        /\ \A i \in 1..Len(pl_cleaned) :
              LET inValid == \E j \in 1..Len(pl_valid) : pl_valid[j] = pl_cleaned[i]
                  inInvalid ==
                      \E j \in 1..Len(pl_invalid) : pl_invalid[j].record = pl_cleaned[i]
              IN /\ inValid # inInvalid
                 /\ inValid <=> IsValidRecord(pl_cleaned[i])
        /\ Cardinality({pl_invalid[j].index : j \in 1..Len(pl_invalid)}) = Len(pl_invalid)

\* a batch of three split into one valid and two invalid records
C1_Witness ==
    /\ Validated
    /\ Len(pl_cleaned) = 3
    /\ Len(pl_valid) = 1
    /\ Len(pl_invalid) = 2

RECURSIVE Flatten(_)
Flatten(seqs) == IF seqs = <<>> THEN <<>> ELSE Head(seqs) \o Flatten(Tail(seqs))

FailureLines == SubSeq(pl_report, 21, Len(pl_report) - 1)

FirstIndex(list, x) == CHOOSE i \in 1..Len(list) : list[i] = x /\ \A j \in 1..(i - 1) : list[j] # x

\* the number of distinct reasons that rank before x: those with a higher
\* count, and those with the same count first encountered earlier
RankOf(list, x) ==
    Cardinality({y \in Range(list) :
        \/ CountOf(list, y) > CountOf(list, x)
        \/ CountOf(list, y) = CountOf(list, x) /\ FirstIndex(list, y) < FirstIndex(list, x)})

\* C9: the report lists at most top_n_failures reasons (none when that is
\* not positive), by descending count over the flat reason list, reasons
\* of equal count in the order they are first encountered; with no reason
\* at all the section shows "None"
C9_TopFailures ==
    pl_pc = "done" =>
        IF pl_reasons = <<>> THEN FailureLines = <<"None">>
        ELSE LET distinct == Cardinality(Range(pl_reasons))
                 limit == IF pl_top_n < 0 THEN 0 ELSE pl_top_n
             IN /\ Len(FailureLines) = (IF limit < distinct THEN limit ELSE distinct)
                /\ \A k \in 1..Len(FailureLines) :
                      \E r \in Range(pl_reasons) :
                          /\ RankOf(pl_reasons, r) = k - 1
                          /\ FailureLines[k] = r \o ": " \o ToString(CountOf(pl_reasons, r))

\* two reasons of equal count compete for a single line, and the one first
\* encountered is listed
C9_Witness ==
    /\ pl_pc = "done"
    /\ pl_top_n = 1
    /\ Len(pl_reasons) = 4
    /\ pl_reasons[1] = "invalid_url_format"
    /\ CountOf(pl_reasons, "invalid_url_format") = 2
    /\ CountOf(pl_reasons, "missing_required_field:title") = 2
    /\ FailureLines = <<"invalid_url_format: 2">>

\* Specification SpecPipeline: run_pipeline_from_records on a raw batch
InitPipeline ==
    /\ pl_pc = "clean"
    /\ pl_raw \in RawBatches
    /\ pl_cleaned = <<>>
    /\ pl_min = MIN_CONTENT_LENGTH
    /\ pl_top_n = DEFAULT_TOP_N
    /\ pl_valid = <<>> /\ pl_invalid = <<>> /\ pl_reasons = <<>> /\ pl_report = <<>>
    /\ IdleText /\ IdleValidate /\ IdleDate /\ IdleClean

NextPipeline == CleanData \/ ValidateData \/ GenerateReport

SpecPipeline == InitPipeline /\ [][NextPipeline]_vars

C10_Missing(f) == CountOf(pl_reasons, "missing_required_field:" \o f)

\* C10: after the pipeline, for each required field the records counted
\* as complete plus the missing_required_field reasons make up the batch,
\* the report shows that completeness, its total is the valid plus the
\* invalid count, and an empty batch reports 0.0% throughout
C10_Completeness ==
    pl_pc = "done" =>
        LET total == Len(pl_cleaned)
        IN /\ total = Len(pl_raw)
           /\ pl_report[8] = "Total records processed: "
                                 \o ToString(Len(pl_valid) + Len(pl_invalid))
           /\ \A i \in 1..Len(REQUIRED_FIELDS) :
                 LET f == REQUIRED_FIELDS[i]
                 IN /\ present_count(pl_cleaned, f) + C10_Missing(f) = total
                    /\ total > 0 =>
                          pl_report[14 + i] =
                              FormatName10(f) \o ": "
                                  \o FormatFixed1Width5(
                                         TimesHundred(
                                             TrueDivide(total - C10_Missing(f), total)))
                                  \o "%"
           /\ total = 0 =>
                 /\ pl_report[11] = "Valid rate: 0.0%"
                 /\ SubSeq(pl_report, 15, 17) =
                        <<"title     :   0.0%", "content   :   0.0%", "url       :   0.0%">>

\* a batch of three whose cleaning empties one title that was not empty
C10_Witness ==
    /\ pl_pc = "done"
    /\ Len(pl_raw) = 3
    /\ \E i \in 1..3 :
          /\ "title" \in DOMAIN pl_raw[i]
          /\ pl_raw[i]["title"] = PyStr(<<"<", "p", ">">>)
          /\ pl_cleaned[i]["title"] = PyStr(<<>>)
    /\ C10_Missing("title") = 1
    /\ pl_report[15] = "title     :  66.7%"

=============================================================================
